---- MODULE Spec2Model ----
(***************************************************************************)
(* A model of context_free_planning: the finite state automaton (FSA) and  *)
(* its parse, the context-free grammar (CFG) with add_production,          *)
(* get_production, is_terminal and generate, the grid and brackets         *)
(* fixtures, and find_short_sentence.                                      *)
(*                                                                         *)
(* A Python string is modelled as the sequence of its symbols; len() of a  *)
(* generated sentence is the sum of the lengths of the symbols in it.      *)
(***************************************************************************)
EXTENDS Integers, Sequences, FiniteSets, TLC

VARIABLES
    fsa,            \* the FSA object: alphabet, states, finalStates, startState, transition
    calls,          \* the parse calls in progress: each call's locals and position
    variables,      \* CFG.variables
    terminals,      \* CFG.terminals
    startVariable,  \* CFG.startVariable
    productions,    \* CFG.productions: the keys present, each with its list of branches
    log,            \* the add_production calls made so far, in call order
    op,             \* the CFG call made last (or in progress): its name and arguments
    ret,            \* what that call returned, or the exception it raised
    gpc,            \* generate: "idle", "gen" (expanding), "done", "error"
    todo,           \* generate: the symbols still to be generated, leftmost first
    out,            \* generate: the result concatenated so far
    fpc,            \* find_short_sentence: "idle", "sampling", "done", "error"
    n,              \* find_short_sentence: its parameter n
    sentences,      \* find_short_sentence: the samples drawn so far, in order
    draws,          \* find_short_sentence: the cfg.generate() calls it has made
    result          \* find_short_sentence: what it returned

fsaVars == <<fsa, calls>>
cfgFields == <<variables, terminals, startVariable, productions>>
genVars == <<gpc, todo, out>>
findVars == <<fpc, n, sentences, draws, result>>
vars == <<fsa, calls, variables, terminals, startVariable, productions, log, op, ret,
          gpc, todo, out, fpc, n, sentences, draws, result>>

\* ------------------------------------------------------------------ bounds

\* The longest string handed to FSA.parse.
MaxLen == 2

\* The most add_production calls made on the small grammar.
MaxCalls == 2

\* The longest sentential form (result so far and pending symbols) of a
\* generate on the small grammar.
MaxForm == 4

\* The longest sentential form of a generate on a fixture grammar.
MaxDeriv == 8

\* The longest sentential form of a generate called by find_short_sentence.
MaxSample == 5

\* The largest n handed to find_short_sentence.
MaxN == 3

\* The longest sentential form of a generate called by
\* find_short_sentence(gridCFG, n), and the largest such n.
MaxGridSample == 7
MaxGridN == 1

\* The longest string handed to gridFSA.parse beside gridCFG.
MaxWord == 7

\* ------------------------------------------------------------------- FSA

\* The side of the square grid (the literal 4 of gridTransitionFunction).
GridSide == 4

gridTransitionFunctionNoCheck(state, letter) ==
    LET y == state \div GridSide
        x == state - (GridSide * y)
        x_new == CASE letter = "E" -> x + 1
                   [] letter = "W" -> x - 1
                   [] OTHER -> x
        y_new == CASE letter = "N" -> y - 1
                   [] letter = "S" -> y + 1
                   [] OTHER -> y
    IN  (y_new * GridSide) + x_new

\* gridTransitionFunction(state, letter); state is never negative, so
\* int(state / 4) is the floor.
gridTransitionFunction(state, letter) ==
    LET y == state \div GridSide
        x == state - (GridSide * y)
        x_new == CASE letter = "E" -> x + 1
                   [] letter = "W" -> x - 1
                   [] OTHER -> x
        y_new == CASE letter = "N" -> y - 1
                   [] letter = "S" -> y + 1
                   [] OTHER -> y
        is_within_grid == (x_new >= 0 /\ x_new < GridSide)
                          /\ (y_new >= 0 /\ y_new < GridSide)
    IN  IF is_within_grid THEN (y_new * GridSide) + x_new ELSE state

\* The transition function of the two-state automaton over {a}.
twoTransitionFunction(state, letter) ==
    IF letter = "a" THEN 1 ELSE state

\* The module's grid automaton.
gridFSA ==
    [alphabet |-> {"N", "E", "S", "W"},
     states |-> 0 .. 15,
     finalStates |-> {15},
     startState |-> 0,
     transition |-> "gridTransitionFunction"]

\* The two-state automaton: states {0,1}, start 0, accepting {1}.
twoFSA ==
    [alphabet |-> {"a"},
     states |-> {0, 1},
     finalStates |-> {1},
     startState |-> 0,
     transition |-> "twoTransitionFunction"]

\* self.transition(state, letter): the call of the callable the field holds.
Transition(f, state, letter) ==
    IF f = "gridTransitionFunction"
    THEN gridTransitionFunction(state, letter)
    ELSE twoTransitionFunction(state, letter)

\* The letters a caller hands to parse: the alphabet, and for the grid one
\* letter outside it (parse does not check membership).
Letters(a) ==
    IF a.transition = "gridTransitionFunction" THEN a.alphabet \cup {"X"} ELSE a.alphabet

RECURSIVE StringsUpTo(_, _)
StringsUpTo(S, len) ==
    IF len = 0 THEN {<<>>}
    ELSE LET shorter == StringsUpTo(S, len - 1)
         IN  shorter \cup {Append(w, s) : w \in shorter, s \in S}

Calls == {1, 2}

IdleCall == [pc |-> "idle", string |-> <<>>, i |-> 0, state |-> 0, ret |-> <<>>]

\* parse(self, string), entry: state = self.startState.
ParseStart(c, w) ==
    /\ calls[c].pc = "idle"
    /\ calls' = [calls EXCEPT ![c] =
                    [pc |-> "loop", string |-> w, i |-> 1,
                     state |-> fsa.startState, ret |-> <<>>]]
    /\ UNCHANGED <<fsa, cfgFields, log, op, ret, genVars, findVars>>

ParseLoopWritesSelf(c) ==
    /\ calls[c].pc = "loop"
    /\ calls[c].i <= Len(calls[c].string)
    /\ LET next == Transition(fsa.transition, fsa.startState, calls[c].string[calls[c].i])
       IN  /\ calls' = [calls EXCEPT ![c].state = next, ![c].i = @ + 1]
           /\ fsa' = [fsa EXCEPT !.startState = next]
           /\ UNCHANGED <<cfgFields, log, op, ret, genVars, findVars>>

\* One iteration of: for letter in string: state = self.transition(state, letter).
ParseLoop(c) ==
    /\ calls[c].pc = "loop"
    /\ calls[c].i <= Len(calls[c].string)
    /\ calls' = [calls EXCEPT
                    ![c].state = Transition(fsa.transition, @, calls[c].string[calls[c].i]),
                    ![c].i = @ + 1]
    /\ UNCHANGED <<fsa, cfgFields, log, op, ret, genVars, findVars>>

ParseReturnAcceptsStart(c) ==
    /\ calls[c].pc = "loop"
    /\ calls[c].i > Len(calls[c].string)
    /\ calls' = [calls EXCEPT
                    ![c].pc = "done",
                    ![c].ret = <<calls[c].state, fsa.startState \in fsa.finalStates>>]
    /\ UNCHANGED <<fsa, cfgFields, log, op, ret, genVars, findVars>>

\* After the loop: accepted = state in self.finalStates; return state, accepted.
ParseReturn(c) ==
    /\ calls[c].pc = "loop"
    /\ calls[c].i > Len(calls[c].string)
    /\ calls' = [calls EXCEPT
                    ![c].pc = "done",
                    ![c].ret = <<calls[c].state, calls[c].state \in fsa.finalStates>>]
    /\ UNCHANGED <<fsa, cfgFields, log, op, ret, genVars, findVars>>

\* ------------------------------------------------------------------- CFG

\* The default of generate's parameter.
None == "<None>"

\* Python truth of a symbol: None and the empty string are false.
Falsy(s) == s = None \/ s = ""

\* defaultdict(lambda: []) with no key.
EmptyProductions == [k \in {} |-> <<>>]

\* self.productions[variable]: a defaultdict creates the missing key with [].
Touch(prods, v) ==
    IF v \in DOMAIN prods THEN prods ELSE prods @@ (v :> <<>>)

AddProductionReplaces(prods, v, branches) ==
    [k \in DOMAIN prods \cup {v} |-> IF k = v THEN branches ELSE prods[k]]

\* add_production: self.productions[variable] += branches.
AddProduction(prods, v, branches) ==
    [k \in DOMAIN prods \cup {v} |->
        IF k = v THEN Touch(prods, v)[v] \o branches ELSE prods[k]]

IsTerminalWhenEmpty(prods, v) ==
    v \notin DOMAIN prods \/ prods[v] = <<>>

\* is_terminal: self.productions.get(variable) == None (get creates no key,
\* and an empty list is not None).
IsTerminal(prods, v) ==
    v \notin DOMAIN prods

NoOp == [name |-> "none", arg |-> None, branches |-> <<>>]
NoRet == [kind |-> "none", val |-> <<>>]

\* add_production(variable, branches).
add_production(v, branches) ==
    /\ gpc \in {"idle", "done", "error"}
    /\ Len(log) < MaxCalls
    /\ productions' = AddProduction(productions, v, branches)
    /\ log' = Append(log, <<v, branches>>)
    /\ op' = [name |-> "add_production", arg |-> v, branches |-> branches]
    /\ ret' = [kind |-> "None", val |-> <<>>]
    /\ gpc' = "idle" /\ todo' = <<>> /\ out' = <<>>
    /\ UNCHANGED <<fsaVars, variables, terminals, startVariable, findVars>>

\* get_production(variable): return self.productions[variable].
get_production(v) ==
    /\ gpc \in {"idle", "done", "error"}
    /\ productions' = Touch(productions, v)
    /\ op' = [name |-> "get_production", arg |-> v, branches |-> <<>>]
    /\ ret' = [kind |-> "list", val |-> productions'[v]]
    /\ gpc' = "idle" /\ todo' = <<>> /\ out' = <<>>
    /\ UNCHANGED <<fsaVars, variables, terminals, startVariable, log, findVars>>

\* is_terminal(variable).
is_terminal(v) ==
    /\ gpc \in {"idle", "done", "error"}
    /\ op' = [name |-> "is_terminal", arg |-> v, branches |-> <<>>]
    /\ ret' = [kind |-> "bool", val |-> IsTerminal(productions, v)]
    /\ gpc' = "idle" /\ todo' = <<>> /\ out' = <<>>
    /\ UNCHANGED <<fsaVars, cfgFields, log, findVars>>

\* generate(variable = None), the outermost call: the symbol to generate is
\* the only one pending and the result is empty.
generate(v) ==
    /\ gpc \in {"idle", "done", "error"}
    /\ op' = [name |-> "generate", arg |-> v, branches |-> <<>>]
    /\ ret' = NoRet
    /\ gpc' = "gen" /\ todo' = <<v>> /\ out' = <<>>
    /\ UNCHANGED <<fsaVars, cfgFields, log, findVars>>

\* The longest sentential form explored: the bound of the object in use.
FormBound ==
    IF startVariable \in {"S", "1"} THEN MaxForm
    ELSE IF fpc # "sampling" THEN MaxDeriv
    ELSE IF startVariable = "00" THEN MaxGridSample ELSE MaxSample

\* One call of generate, outermost or recursive, on the leftmost pending
\* symbol: variable = variable or self.startVariable; a terminal is returned
\* and concatenated; otherwise random.choice picks one branch, whose symbols
\* are generated in order before the symbols that were pending already.
\* random.choice of an empty list raises IndexError.
GenerateStep ==
    /\ gpc = "gen"
    /\ todo # <<>>
    /\ LET variable == IF Falsy(Head(todo)) THEN startVariable ELSE Head(todo)
       IN  IF IsTerminal(productions, variable)
           THEN /\ out' = Append(out, variable)
                /\ todo' = Tail(todo)
                /\ UNCHANGED <<gpc, ret, productions>>
           ELSE LET branches == Touch(productions, variable)[variable]
                IN  /\ productions' = Touch(productions, variable)
                    /\ IF branches = <<>>
                       THEN /\ gpc' = "error"
                            /\ ret' = [kind |-> "IndexError", val |-> <<>>]
                            /\ UNCHANGED <<todo, out>>
                       ELSE /\ \E k \in 1 .. Len(branches) :
                                 /\ Len(out) + Len(branches[k]) + Len(todo) - 1 <= FormBound
                                 /\ todo' = branches[k] \o Tail(todo)
                            /\ UNCHANGED <<gpc, ret, out>>
    /\ UNCHANGED <<fsaVars, variables, terminals, startVariable, log, op, findVars>>

\* The outermost generate returns once nothing is pending.
GenerateReturn ==
    /\ gpc = "gen"
    /\ todo = <<>>
    /\ gpc' = "done"
    /\ ret' = [kind |-> "str", val |-> out]
    /\ UNCHANGED <<fsaVars, cfgFields, log, op, todo, out, findVars>>

\* Whether generate can turn the pending symbols form into exactly w: the
\* choices of GenerateStep, tried one after the other. (Every branch holds a
\* symbol and every symbol generates at least one, so a branch that makes
\* the form longer than w is not tried.)
RECURSIVE Derives(_, _, _, _)
Derives(prods, start, form, w) ==
    IF form = <<>> THEN w = <<>>
    ELSE LET variable == IF Falsy(form[1]) THEN start ELSE form[1]
             rest == SubSeq(form, 2, Len(form))
         IN  IF IsTerminal(prods, variable)
             THEN /\ w # <<>>
                  /\ w[1] = variable
                  /\ Derives(prods, start, rest, SubSeq(w, 2, Len(w)))
             ELSE \E k \in 1 .. Len(prods[variable]) :
                      /\ Len(prods[variable][k]) + Len(rest) <= Len(w)
                      /\ Derives(prods, start, prods[variable][k] \o rest, w)

\* The symbols callers use on the small grammar: its declared variables and
\* terminal, and one symbol "U" it does not declare.
Symbols == {"S", "A", "a", "U"}

\* The branches arguments callers pass to add_production on the small grammar.
BranchLists ==
    { <<>>,
      << <<"a">> >>,
      << <<"a">>, <<"A", "a">> >>,
      << <<"U">> >> }

\* -------------------------------------------------------------- fixtures

\* The productions after a sequence of add_production calls on a new CFG.
RECURSIVE Construct(_)
Construct(made) ==
    IF made = <<>> THEN EmptyProductions
    ELSE LET call == made[Len(made)]
         IN  AddProduction(Construct(SubSeq(made, 1, Len(made) - 1)), call[1], call[2])

\* The add_production calls the module makes on ketsCFG, in order.
ketsCalls ==
    << <<"BRACE", << <<"(", "START", ")">> >> >>,
       <<"SQUARE", << <<"[", "START", "]">> >> >>,
       <<"START", << <<"BRACE">>, <<"SQUARE">>, <<".">> >> >> >>

\* ketsCFG as the module leaves it.
ketsCFG ==
    [variables |-> {"BRACE", "RIGHT", "START"},
     terminals |-> {"(", ")", "[", "]", "."},
     startVariable |-> "START",
     productions |-> Construct(ketsCalls),
     log |-> ketsCalls]

\* Row '0f' without its end-marker branch: the corner only loops.
gridRow0fNoEnd == <<"0f", << <<"E", "0f">> >> >>

\* gridCFG.add_production('0f', ...), lines 218-220.
gridRow0f == <<"0f", << <<"$">> >> >>

\* Row '0e' with the symbols of its E branch in the other order.
gridRow0eSwapped ==
    <<"0e", << <<"N", "0a">>, <<"0f", "E">>, <<"S", "0e">>, <<"W", "0d">> >> >>

\* gridCFG.add_production('0e', ...), lines 223-228.
gridRow0e == <<"0e", << <<"N", "0a">>, <<"E", "0f">>, <<"S", "0e">>, <<"W", "0d">> >> >>

\* gridCFG.add_production('0d', ...), lines 231-236.
gridRow0d == <<"0d", << <<"N", "09">>, <<"E", "0e">>, <<"S", "0d">>, <<"W", "0c">> >> >>

\* gridCFG.add_production('0c', ...), lines 239-244.
gridRow0c == <<"0c", << <<"N", "08">>, <<"E", "0d">>, <<"S", "0c">>, <<"W", "0c">> >> >>

\* gridCFG.add_production('0b', ...), lines 247-252.
gridRow0b == <<"0b", << <<"N", "07">>, <<"E", "0b">>, <<"S", "0f">>, <<"W", "0a">> >> >>

\* gridCFG.add_production('0a', ...), lines 255-260.
gridRow0a == <<"0a", << <<"N", "06">>, <<"E", "0b">>, <<"S", "0e">>, <<"W", "09">> >> >>

\* gridCFG.add_production('09', ...), lines 263-268.
gridRow09 == <<"09", << <<"N", "05">>, <<"E", "0a">>, <<"S", "0d">>, <<"W", "08">> >> >>

\* gridCFG.add_production('08', ...), lines 271-276.
gridRow08 == <<"08", << <<"N", "04">>, <<"E", "09">>, <<"S", "0c">>, <<"W", "08">> >> >>

\* gridCFG.add_production('07', ...), lines 279-284.
gridRow07 == <<"07", << <<"N", "03">>, <<"E", "07">>, <<"S", "0b">>, <<"W", "06">> >> >>

\* gridCFG.add_production('06', ...), lines 287-292.
gridRow06 == <<"06", << <<"N", "02">>, <<"E", "07">>, <<"S", "0a">>, <<"W", "05">> >> >>

\* gridCFG.add_production('05', ...), lines 295-300.
gridRow05 == <<"05", << <<"N", "01">>, <<"E", "06">>, <<"S", "09">>, <<"W", "04">> >> >>

\* gridCFG.add_production('04', ...), lines 303-308.
gridRow04 == <<"04", << <<"N", "00">>, <<"E", "05">>, <<"S", "08">>, <<"W", "04">> >> >>

\* gridCFG.add_production('03', ...), lines 311-316.
gridRow03 == <<"03", << <<"N", "03">>, <<"E", "03">>, <<"S", "07">>, <<"W", "02">> >> >>

\* gridCFG.add_production('02', ...), lines 319-324.
gridRow02 == <<"02", << <<"N", "02">>, <<"E", "03">>, <<"S", "06">>, <<"W", "02">> >> >>

\* gridCFG.add_production('01', ...), lines 328-333.
gridRow01 == <<"01", << <<"N", "01">>, <<"E", "02">>, <<"S", "05">>, <<"W", "00">> >> >>

\* Row '00' with a diagonal move E to '05', which the grid does not have.
gridRow00Diagonal ==
    <<"00", << <<"N", "00">>, <<"E", "05">>, <<"S", "04">>, <<"W", "00">> >> >>

\* gridCFG.add_production('00', ...), lines 336-341.
gridRow00 == <<"00", << <<"N", "00">>, <<"E", "01">>, <<"S", "04">>, <<"W", "00">> >> >>

\* The add_production calls the module makes on gridCFG, in order.
gridCalls ==
    << gridRow0f, gridRow0e, gridRow0d, gridRow0c, gridRow0b, gridRow0a, gridRow09,
       gridRow08, gridRow07, gridRow06, gridRow05, gridRow04, gridRow03, gridRow02,
       gridRow01, gridRow00 >>

\* gridCFG as the module leaves it.
gridCFG ==
    [variables |-> {"00", "01", "02", "03", "04", "05", "06", "07",
                    "08", "09", "0a", "0b", "0c", "0d", "0e", "0f"},
     terminals |-> {"$", "N", "E", "S", "W"},
     startVariable |-> "00",
     productions |-> Construct(gridCalls),
     log |-> gridCalls]

\* CFG(variables = {S, A}, terminals = {a}, startVariable = S), as __init__
\* leaves it: a small grammar for callers to build.
smallCFG ==
    [variables |-> {"S", "A"},
     terminals |-> {"a"},
     startVariable |-> "S",
     productions |-> EmptyProductions,
     log |-> <<>>]

\* The add_production calls of a caller whose grammar names a variable by the
\* empty string, a falsy symbol.
falsyCalls ==
    << <<"", << <<"a", "1">> >> >>,
       <<"1", << <<"b", "">>, <<"$">> >> >> >>

\* CFG(variables = {'', '1'}, terminals = {a, b, $}, startVariable = '1')
\* after those calls.
falsyCFG ==
    [variables |-> {"", "1"},
     terminals |-> {"a", "b", "$"},
     startVariable |-> "1",
     productions |-> Construct(falsyCalls),
     log |-> falsyCalls]

IsSmall == startVariable = smallCFG.startVariable
IsFalsy == startVariable = falsyCFG.startVariable
IsGrid == startVariable = gridCFG.startVariable
IsKets == startVariable = ketsCFG.startVariable

\* The result of generate without its trailing end-marker.
Strip(sentence) ==
    IF sentence # <<>> /\ sentence[Len(sentence)] = "$"
    THEN SubSeq(sentence, 1, Len(sentence) - 1)
    ELSE sentence

\* ---------------------------------------------------- find_short_sentence

\* len(sentence): the characters of the symbols concatenated.
RECURSIVE PyLen(_)
PyLen(sentence) ==
    IF sentence = <<>> THEN 0
    ELSE Len(sentence[1]) + PyLen(SubSeq(sentence, 2, Len(sentence)))

RECURSIVE MinScanLast(_, _)
MinScanLast(best, rest) ==
    IF rest = <<>> THEN best
    ELSE MinScanLast(IF PyLen(rest[1]) <= PyLen(best) THEN rest[1] ELSE best,
                     SubSeq(rest, 2, Len(rest)))

\* The scan of min(..., key = len): a later element replaces the best so far
\* only when its key is smaller.
RECURSIVE MinScan(_, _)
MinScan(best, rest) ==
    IF rest = <<>> THEN best
    ELSE MinScan(IF PyLen(rest[1]) < PyLen(best) THEN rest[1] ELSE best,
                 SubSeq(rest, 2, Len(rest)))

MinByLenLast(samples) == MinScanLast(samples[1], SubSeq(samples, 2, Len(samples)))

\* min(sentences, key = lambda sentence: len(sentence)) of a non-empty list.
MinByLen(samples) == MinScan(samples[1], SubSeq(samples, 2, Len(samples)))

\* find_short_sentence(cfg, n), entry.
FindStart(k) ==
    /\ fpc = "idle"
    /\ gpc = "idle"
    /\ fpc' = "sampling"
    /\ n' = k
    /\ sentences' = <<>>
    /\ draws' = 0
    /\ UNCHANGED <<fsaVars, cfgFields, log, op, ret, genVars, result>>

\* The list comprehension calls cfg.generate() while fewer than n samples
\* are drawn.
SampleCall ==
    /\ fpc = "sampling"
    /\ gpc = "idle"
    /\ Len(sentences) < n
    /\ draws' = draws + 1
    /\ op' = [name |-> "generate", arg |-> None, branches |-> <<>>]
    /\ ret' = NoRet
    /\ gpc' = "gen" /\ todo' = <<None>> /\ out' = <<>>
    /\ UNCHANGED <<fsaVars, cfgFields, log, fpc, n, sentences, result>>

\* cfg.generate() returned: the sample is appended to the list.
SampleCollect ==
    /\ fpc = "sampling"
    /\ gpc = "done"
    /\ sentences' = Append(sentences, ret.val)
    /\ gpc' = "idle" /\ todo' = <<>> /\ out' = <<>>
    /\ UNCHANGED <<fsaVars, cfgFields, log, op, ret, fpc, n, draws, result>>

\* A return that answers an empty sample list with the empty string.
FindReturnDefault ==
    /\ fpc = "sampling"
    /\ gpc = "idle"
    /\ Len(sentences) = n
    /\ fpc' = "done"
    /\ result' = IF sentences = <<>> THEN <<>> ELSE MinByLen(sentences)
    /\ UNCHANGED <<fsaVars, cfgFields, log, op, ret, genVars, n, sentences, draws>>

\* return min(sentences, key = len); min of an empty list raises ValueError.
FindReturn ==
    /\ fpc = "sampling"
    /\ gpc = "idle"
    /\ Len(sentences) = n
    /\ IF sentences = <<>>
       THEN fpc' = "error" /\ UNCHANGED result
       ELSE fpc' = "done" /\ result' = MinByLen(sentences)
    /\ UNCHANGED <<fsaVars, cfgFields, log, op, ret, genVars, n, sentences, draws>>

\* The CFG object in use: the small grammar callers build, or a fixture.
InitCFG ==
    /\ \E g \in {smallCFG, falsyCFG, ketsCFG, gridCFG} :
        /\ variables = g.variables
        /\ terminals = g.terminals
        /\ startVariable = g.startVariable
        /\ productions = g.productions
        /\ log = g.log
    /\ op = NoOp /\ ret = NoRet
    /\ gpc = "idle" /\ todo = <<>> /\ out = <<>>
    /\ fsa = gridFSA
    /\ calls = [c \in Calls |-> IdleCall]
    /\ fpc = "idle" /\ n = 0 /\ sentences = <<>> /\ draws = 0 /\ result = <<>>

\* Callers build and query the small grammar and generate from the grammar
\* with a falsy symbol; the fixtures are generated
\* from, and a sentence of gridCFG is fed back to gridFSA.parse.
NextCFG ==
    \/ IsSmall /\ \E v \in Symbols, branches \in BranchLists : add_production(v, branches)
    \/ IsSmall /\ \E v \in Symbols : get_production(v)
    \/ IsSmall /\ \E v \in Symbols : is_terminal(v)
    \/ IsSmall /\ \E v \in Symbols \cup {None} : generate(v)
    \/ IsFalsy /\ \E v \in falsyCFG.variables \cup {None} : generate(v)
    \/ (IsGrid \/ IsKets) /\ gpc = "idle" /\ generate(None)
    \/ GenerateStep
    \/ GenerateReturn
    \/ IsGrid /\ gpc = "done" /\ ParseStart(1, Strip(out))
    \/ IsGrid /\ ParseLoop(1)
    \/ IsGrid /\ ParseReturn(1)

SpecCFG == InitCFG /\ [][NextCFG]_vars

\* gridFSA.parse on every string over the alphabet, beside gridCFG.
InitBridge ==
    /\ fsa = gridFSA
    /\ calls = [c \in Calls |-> IdleCall]
    /\ variables = gridCFG.variables
    /\ terminals = gridCFG.terminals
    /\ startVariable = gridCFG.startVariable
    /\ productions = gridCFG.productions
    /\ log = gridCFG.log
    /\ op = NoOp /\ ret = NoRet
    /\ gpc = "idle" /\ todo = <<>> /\ out = <<>>
    /\ fpc = "idle" /\ n = 0 /\ sentences = <<>> /\ draws = 0 /\ result = <<>>

NextBridge ==
    \/ /\ calls[1].pc = "idle"
       /\ \E w \in StringsUpTo(fsa.alphabet, MaxWord) : ParseStart(1, w)
    \/ ParseLoop(1)
    \/ ParseReturn(1)

SpecBridge == InitBridge /\ [][NextBridge]_vars

\* find_short_sentence(ketsCFG, n) for n in 0 .. MaxN.
InitSampler ==
    /\ variables = ketsCFG.variables
    /\ terminals = ketsCFG.terminals
    /\ startVariable = ketsCFG.startVariable
    /\ productions = ketsCFG.productions
    /\ log = ketsCFG.log
    /\ op = NoOp /\ ret = NoRet
    /\ gpc = "idle" /\ todo = <<>> /\ out = <<>>
    /\ fpc = "idle" /\ n = 0 /\ sentences = <<>> /\ draws = 0 /\ result = <<>>
    /\ fsa = gridFSA
    /\ calls = [c \in Calls |-> IdleCall]

NextSampler ==
    \/ \E k \in 0 .. MaxN : FindStart(k)
    \/ SampleCall
    \/ GenerateStep
    \/ GenerateReturn
    \/ SampleCollect
    \/ FindReturn

SpecSampler == InitSampler /\ [][NextSampler]_vars

\* find_short_sentence(gridCFG, n) for n in 1 .. MaxGridN, and its result fed
\* back to gridFSA.parse.
InitGridSampler == InitBridge

NextGridSampler ==
    \/ \E k \in 1 .. MaxGridN : FindStart(k)
    \/ SampleCall
    \/ GenerateStep
    \/ GenerateReturn
    \/ SampleCollect
    \/ FindReturn
    \/ fpc = "done" /\ ParseStart(1, Strip(result))
    \/ ParseLoop(1)
    \/ ParseReturn(1)

SpecGridSampler == InitGridSampler /\ [][NextGridSampler]_vars

InitFSA ==
    /\ fsa \in {gridFSA, twoFSA}
    /\ calls = [c \in Calls |-> IdleCall]
    /\ variables = {} /\ terminals = {} /\ startVariable = None
    /\ productions = EmptyProductions
    /\ log = <<>>
    /\ op = NoOp /\ ret = NoRet
    /\ gpc = "idle" /\ todo = <<>> /\ out = <<>>
    /\ fpc = "idle" /\ n = 0 /\ sentences = <<>> /\ draws = 0 /\ result = <<>>

NextFSA ==
    \E c \in Calls :
        \/ \E w \in StringsUpTo(Letters(fsa), MaxLen) : ParseStart(c, w)
        \/ ParseLoop(c)
        \/ ParseReturn(c)

SpecFSA == InitFSA /\ [][NextFSA]_vars

\* ------------------------------------------------------------ claims, FSA

\* The state reached from q on w, by induction on the last symbol.
RECURSIVE DeltaHat(_, _, _)
DeltaHat(f, q, w) ==
    IF w = <<>> THEN q
    ELSE Transition(f, DeltaHat(f, q, SubSeq(w, 1, Len(w) - 1)), w[Len(w)])

\* C1: a finished parse(w) returns (finalState, accepted): finalState is the
\* state reached from startState on the symbols of w in order, accepted is
\* finalState \in finalStates; parse(<<>>) = (startState, startState \in
\* finalStates); on the two-state automaton parse("a") = (1, TRUE) and
\* parse("") = (0, FALSE).
C1_ParseResult ==
    \A c \in Calls :
        calls[c].pc = "done" =>
            LET w == calls[c].string
                q == DeltaHat(fsa.transition, fsa.startState, w)
            IN  /\ calls[c].ret = <<q, q \in fsa.finalStates>>
                /\ w = <<>> =>
                    calls[c].ret = <<fsa.startState, fsa.startState \in fsa.finalStates>>
                /\ (fsa = twoFSA /\ w = <<"a">>) => calls[c].ret = <<1, TRUE>>
                /\ (fsa = twoFSA /\ w = <<>>) => calls[c].ret = <<0, FALSE>>

C1_Witness ==
    /\ fsa = twoFSA
    /\ calls[1].pc = "done" /\ calls[1].string = <<"a">> /\ calls[1].ret = <<1, TRUE>>
    /\ calls[2].pc = "done" /\ calls[2].string = <<>> /\ calls[2].ret = <<0, FALSE>>

\* C10: parse is deterministic and a pure read: finished calls on the same
\* string hold the same (state, accepted) pair, each the pair the call gives
\* when it runs alone, however the calls were interleaved; and no step of a
\* parse changes alphabet, states, finalStates, startState or transition.
C10_ParsePure ==
    /\ [](\A c \in Calls, d \in Calls :
            (calls[c].pc = "done" /\ calls[d].pc = "done"
             /\ calls[c].string = calls[d].string)
            => calls[c].ret = calls[d].ret)
    /\ [](\A c \in Calls :
            calls[c].pc = "done" =>
                calls[c].ret[1] = DeltaHat(fsa.transition, fsa.startState, calls[c].string))
    /\ [][fsa' = fsa]_vars

C10_Witness ==
    /\ fsa = gridFSA
    /\ calls[1].pc = "done" /\ calls[2].pc = "done"
    /\ calls[1].string = <<"E", "S">> /\ calls[2].string = <<"E", "S">>
    /\ calls[1].ret = <<5, FALSE>> /\ calls[2].ret = <<5, FALSE>>

\* ------------------------------------------------------------ claims, CFG

\* The branch list recorded for v: empty when v is no key.
Recorded(prods, v) == IF v \in DOMAIN prods THEN prods[v] ELSE <<>>

\* The branches arguments passed for v, concatenated in call order.
RECURSIVE ConcatFor(_, _)
ConcatFor(made, v) ==
    IF made = <<>> THEN <<>>
    ELSE ConcatFor(SubSeq(made, 1, Len(made) - 1), v)
         \o (IF made[Len(made)][1] = v THEN made[Len(made)][2] ELSE <<>>)

\* The symbols that occur in the recorded branches.
BranchSymbols(prods) ==
    UNION { UNION { {prods[v][k][i] : i \in 1 .. Len(prods[v][k])} :
                    k \in 1 .. Len(prods[v]) } : v \in DOMAIN prods }

\* The symbols a call of add_production hands over in its branches.
ArgSymbols(branches) ==
    UNION { {branches[k][i] : i \in 1 .. Len(branches[k])} : k \in 1 .. Len(branches) }

\* The symbol the outermost generate was asked for: startVariable by default.
GenTarget == IF op.arg = None THEN startVariable ELSE op.arg

\* C2: every terminal string gridCFG derives from '00' ends with '$' and,
\* with that end-marker stripped, is a symbol sequence gridFSA.parse accepts:
\* the parse ends in state 0x0f.
C2_GridSound ==
    IsGrid =>
        /\ gpc = "done" => (out # <<>> /\ out[Len(out)] = "$")
        /\ (gpc = "done" /\ calls[1].pc = "done") =>
                (calls[1].string = Strip(out) /\ calls[1].ret = <<15, TRUE>>)

\* C3: every string w over {N,E,S,W} that gridFSA.parse accepts has w + '$'
\* derivable by gridCFG from its start variable '00', also when w visits the
\* accepting state 0x0f before its last symbol.
C3_GridComplete ==
    (calls[1].pc = "done" /\ calls[1].ret[2])
    => Derives(productions, startVariable, <<startVariable>>,
               Append(calls[1].string, "$"))

\* C4: the branch list recorded for each variable is the concatenation, in
\* call order, of the branches arguments passed for it to add_production,
\* and a variable that add_production was called for has an entry.
C4_AddProductionAccumulates ==
    \A v \in Symbols \cup DOMAIN productions \cup variables \cup terminals :
        /\ Recorded(productions, v) = ConcatFor(log, v)
        /\ (\E i \in 1 .. Len(log) : log[i][1] = v) => v \in DOMAIN productions

C4_Witness ==
    /\ IsSmall
    /\ log = << <<"S", << <<"U">> >> >>, <<"S", << <<"a">>, <<"A", "a">> >> >> >>
    /\ productions["S"] = << <<"U">>, <<"a">>, <<"A", "a">> >>

\* C5: is_terminal(v) returns true if and only if v has no recorded
\* branches (its branch list is absent or empty).
C5_IsTerminalIffNoBranches ==
    op.name = "is_terminal" =>
        (ret.val <=> (Recorded(productions, op.arg) = <<>>))

\* C6: generate(v) returns v itself when v has no recorded branches.
C6_GenerateReturnsSymbol ==
    (op.name = "generate" /\ gpc \in {"done", "error"}
     /\ Recorded(productions, GenTarget) = <<>>)
    => (ret.kind = "str" /\ ret.val = <<GenTarget>>)

\* C7 as claimed: on a grammar in which every symbol of every branch is a
\* declared terminal or a declared variable, every string generate returns
\* consists solely of declared terminals.
C7_Original ==
    (op.name = "generate" /\ gpc = "done"
     /\ BranchSymbols(productions) \subseteq (terminals \cup variables))
    => \A i \in 1 .. Len(out) : out[i] \in terminals

\* C7, amended: on a grammar in which every symbol of every branch is a
\* declared terminal or a declared variable, and the start variable and
\* every declared variable that occurs in a branch have an entry in
\* productions, every string returned by generate(v), for v omitted, a
\* declared terminal or a symbol with an entry, consists solely of declared
\* terminals; every completed derivation of gridCFG is over {N,E,S,W,$} and
\* every completed derivation of ketsCFG is over {(,),[,],.}.
C7_GenerateTerminalsOnly ==
    /\ (op.name = "generate" /\ gpc = "done"
        /\ BranchSymbols(productions) \subseteq (terminals \cup variables)
        /\ (BranchSymbols(productions) \cap variables) \subseteq DOMAIN productions
        /\ startVariable \in DOMAIN productions
        /\ GenTarget \in terminals \cup DOMAIN productions)
       => \A i \in 1 .. Len(out) : out[i] \in terminals
    /\ (IsGrid /\ gpc = "done")
       => \A i \in 1 .. Len(out) : out[i] \in {"N", "E", "S", "W", "$"}
    /\ (startVariable = ketsCFG.startVariable /\ gpc = "done")
       => \A i \in 1 .. Len(out) : out[i] \in {"(", ")", "[", "]", "."}

C7_Witness ==
    /\ IsSmall
    /\ op.name = "generate" /\ gpc = "done"
    /\ log = << <<"S", << <<"a">>, <<"A", "a">> >> >>,
                <<"A", << <<"a">>, <<"A", "a">> >> >> >>
    /\ out = <<"a", "a", "a">>

\* C8: add_production rejects, when it is called, a branch with a symbol
\* that is neither a declared terminal nor a declared variable, and records
\* nothing of the call.
C8_AddProductionRejects ==
    (op.name = "add_production"
     /\ ~(ArgSymbols(op.branches) \subseteq (terminals \cup variables)))
    => /\ ret.kind = "MalformedGrammar"
       /\ Recorded(productions, op.arg)
            = ConcatFor(SubSeq(log, 1, Len(log) - 1), op.arg)

\* ------------------------------------------ claims, find_short_sentence

\* C9: find_short_sentence(cfg, n), n >= 1, draws exactly n samples with
\* cfg.generate() and returns a sample no longer than any other, the first
\* drawn among the shortest; for n = 1 the single sample; and the result for
\* the first n - 1 samples is no shorter than the result for all n.
C9_FindShortSentence ==
    fpc = "done" =>
        /\ n >= 1 /\ draws = n /\ Len(sentences) = n
        /\ \E i \in 1 .. n :
            /\ result = sentences[i]
            /\ \A j \in 1 .. n : PyLen(sentences[i]) <= PyLen(sentences[j])
            /\ \A j \in 1 .. i - 1 : PyLen(sentences[j]) > PyLen(sentences[i])
        /\ n = 1 => result = sentences[1]
        /\ n >= 2 => PyLen(result) <= PyLen(MinByLen(SubSeq(sentences, 1, n - 1)))

C9_Witness ==
    /\ fpc = "done" /\ n = 3
    /\ sentences = << <<"(", "(", ".", ")", ")">>, <<"[", ".", "]">>, <<"(", ".", ")">> >>
    /\ result = <<"[", ".", "]">>

\* ------------------------------------------------- claims, grid fixtures

\* The grammar variable 'XY' of automaton state 0xXY.
VarOf(q) ==
    <<"00", "01", "02", "03", "04", "05", "06", "07",
      "08", "09", "0a", "0b", "0c", "0d", "0e", "0f">>[q + 1]

\* The branches recorded for v, as a set.
BranchSet(prods, v) == {Recorded(prods, v)[k] : k \in 1 .. Len(Recorded(prods, v))}

\* C11: the productions of gridCFG are exactly those of the construction
\* applied to gridFSA: the variable of state q has the branch (a, variable
\* of gridTransitionFunction(q, a)) for every symbol a, the variable of an
\* accepting state has the branch ('$',), and there is no other branch.
C11_GridConstruction ==
    IsGrid =>
        /\ \A q \in gridFSA.states :
                BranchSet(productions, VarOf(q))
                    = {<<a, VarOf(gridTransitionFunction(q, a))>> : a \in gridFSA.alphabet}
                      \cup (IF q \in gridFSA.finalStates THEN {<<"$">>} ELSE {})
        /\ DOMAIN productions \subseteq {VarOf(q) : q \in gridFSA.states}

\* Whether the move letter leads out of the grid from state s.
LeavesGrid(s, letter) ==
    \/ letter = "N" /\ s \div GridSide = 0
    \/ letter = "S" /\ s \div GridSide = GridSide - 1
    \/ letter = "W" /\ s % GridSide = 0
    \/ letter = "E" /\ s % GridSide = GridSide - 1

\* C12: for every state s of gridFSA and every letter, of the alphabet or
\* not, gridTransitionFunction(s, letter) is a state of gridFSA; a move that
\* would leave the grid and a letter outside the alphabet return s; hence
\* the state of a gridFSA.parse call is a state of gridFSA after every
\* symbol, and so is the state it returns.
C12_GridTransitionTotal ==
    fsa = gridFSA =>
        /\ \A s \in fsa.states, letter \in Letters(fsa) :
            /\ Transition(fsa.transition, s, letter) \in fsa.states
            /\ letter \notin fsa.alphabet => Transition(fsa.transition, s, letter) = s
            /\ LeavesGrid(s, letter) => Transition(fsa.transition, s, letter) = s
        /\ \A c \in Calls :
            /\ calls[c].pc # "idle" => calls[c].state \in fsa.states
            /\ calls[c].pc = "done" => calls[c].ret[1] \in fsa.states

C12_Witness ==
    /\ fsa = gridFSA
    /\ calls[1].pc = "done" /\ calls[1].string = <<"N", "X">> /\ calls[1].ret = <<0, FALSE>>
    /\ calls[2].pc = "done" /\ calls[2].string = <<"E", "E">> /\ calls[2].ret = <<2, FALSE>>

\* C13: every symbol of every recorded branch, and every variable that has
\* recorded branches, is a declared terminal or a declared variable of the
\* grammar, and startVariable is a declared variable: in gridCFG and ketsCFG
\* as constructed, and after the add_production calls the code accepts.
C13_SymbolsDeclared ==
    /\ BranchSymbols(productions) \subseteq (terminals \cup variables)
    /\ {v \in DOMAIN productions : productions[v] # <<>>} \subseteq (terminals \cup variables)
    /\ startVariable \in variables

\* The length L of a shortest path from state 0x00 to the corner 0x0f.
ShortestPath == 2 * (GridSide - 1)

\* C14: every string gridCFG.generate() returns, and so every result of
\* find_short_sentence(gridCFG, n), n >= 1, has at least L = 6 action symbols
\* before its end-marker; and such a string with exactly L action symbols is
\* accepted when it is fed back to gridFSA.parse.
C14_GridShortest ==
    /\ (gpc = "done" /\ op.name = "generate") => PyLen(Strip(ret.val)) >= ShortestPath
    /\ \A i \in 1 .. Len(sentences) : PyLen(Strip(sentences[i])) >= ShortestPath
    /\ fpc = "done" =>
        /\ n >= 1
        /\ PyLen(Strip(result)) >= ShortestPath
        /\ PyLen(result) >= ShortestPath + 1
    /\ (fpc = "done" /\ calls[1].pc = "done" /\ PyLen(Strip(result)) = ShortestPath)
       => (calls[1].string = Strip(result) /\ calls[1].ret = <<15, TRUE>>)

C14_Witness ==
    /\ fpc = "done" /\ n = 1
    /\ result = <<"E", "S", "E", "S", "E", "S", "$">>
    /\ calls[1].pc = "done" /\ calls[1].ret = <<15, TRUE>>

\* ------------------------------------------------- claims, termination
\* The symbol generate expands when it is handed s.
Expanded(start, s) == IF Falsy(s) THEN start ELSE s

\* The keys of prods that some sequence of branch choices turns into terminals
\* only: the least set closed under "one branch has every symbol finishing".
RECURSIVE ProductiveFrom(_, _, _)
ProductiveFrom(prods, start, P) ==
    LET Q == P \cup
             {v \in DOMAIN prods :
                 \E k \in 1 .. Len(prods[v]) :
                     \A i \in 1 .. Len(prods[v][k]) :
                         \/ IsTerminal(prods, Expanded(start, prods[v][k][i]))
                         \/ Expanded(start, prods[v][k][i]) \in P}
    IN  IF Q = P THEN P ELSE ProductiveFrom(prods, start, Q)

\* Whether symbol s finishes, P being the productive keys of prods.
CanFinish(prods, start, P, s) ==
    \/ IsTerminal(prods, Expanded(start, s))
    \/ Expanded(start, s) \in P

\* The symbols a derivation from start can come to expand.
RECURSIVE ReachableFrom(_, _, _)
ReachableFrom(prods, start, R) ==
    LET Q == R \cup
             {Expanded(start, s) :
                 s \in UNION { ArgSymbols(Recorded(prods, v)) : v \in R }}
    IN  IF Q = R THEN R ELSE ReachableFrom(prods, start, Q)

\* The pending symbols that generate will expand by a branch choice.
PendingVariables ==
    {i \in 1 .. Len(todo) : ~IsTerminal(productions, Expanded(startVariable, todo[i]))}

RECURSIVE DerivesOwn(_, _, _)
DerivesOwn(prods, form, w) ==
    IF form = <<>> THEN w = <<>>
    ELSE LET rest == SubSeq(form, 2, Len(form))
         IN  IF IsTerminal(prods, form[1])
             THEN /\ w # <<>>
                  /\ w[1] = form[1]
                  /\ DerivesOwn(prods, rest, SubSeq(w, 2, Len(w)))
             ELSE \E k \in 1 .. Len(prods[form[1]]) :
                      /\ Len(prods[form[1]][k]) + Len(rest) <= Len(w)
                      /\ DerivesOwn(prods, prods[form[1]][k] \o rest, w)

\* C16: generate(v) with an explicit symbol v, falsy or not, returns a string
\* that v's own productions derive, every symbol of a branch being expanded
\* by its own productions; startVariable stands in only for a missing argument.
C16_GenerateExpandsArgument ==
    (~IsSmall /\ gpc = "done" /\ op.name = "generate")
        => DerivesOwn(productions, <<GenTarget>>, ret.val)

\* ------------------------------------------------- claims, frame of the reads
\* A step of one of the read operations of CFG, on any symbol.
ReadStep ==
    \/ \E v \in Symbols \cup falsyCFG.variables \cup {None} :
           get_production(v) \/ is_terminal(v) \/ generate(v)
    \/ GenerateStep
    \/ GenerateReturn

\* C17: a step of get_production(v), is_terminal(v) or generate(v), for any
\* symbol v with or without recorded branches, leaves productions (its keys
\* and every branch list), variables, terminals and startVariable as they were.
C17_ReadsLeaveGrammar ==
    [][ReadStep => UNCHANGED cfgFields]_vars

\* ------------------------------------------------- claims, right-linearity
\* A symbol the grammar treats as a variable: declared one, or one with
\* recorded branches.
IsVariableSymbol(s) == s \in variables \/ ~IsTerminal(productions, s)

\* At most one variable in the symbol sequence, and only as its last symbol.
RightLinear(symbols) ==
    \A i \in 1 .. Len(symbols) : IsVariableSymbol(symbols[i]) => i = Len(symbols)

\* C18: every recorded branch of gridCFG holds at most one variable, as its
\* last symbol; so does every sentential form of a derivation, and every
\* string gridCFG.generate() returns holds '$' exactly once, as its last
\* symbol, after symbols of {N, E, S, W} only.
C18_GridRightLinear ==
    IsGrid =>
        /\ \A v \in DOMAIN productions :
               \A k \in 1 .. Len(productions[v]) : RightLinear(productions[v][k])
        /\ gpc = "gen" => RightLinear(out \o todo)
        /\ (gpc = "done" /\ op.name = "generate") =>
            /\ ret.val # <<>>
            /\ ret.val[Len(ret.val)] = "$"
            /\ \A i \in 1 .. Len(ret.val) - 1 : ret.val[i] \in gridFSA.alphabet

C18_Witness ==
    /\ IsGrid /\ gpc = "done" /\ op.name = "generate"
    /\ ret.val = <<"N", "S", "S", "S", "E", "E", "E", "$">>

\* ------------------------------------------------- claims, empty sample
\* C19: find_short_sentence(cfg, 0) calls generate not once and ends in the
\* error of min over an empty list, returning no string; the grammar stays
\* as it was; a string is returned only when n >= 1, after n samples.
C19_FindShortSentenceZero ==
    /\ (fpc # "idle" /\ n = 0) =>
        /\ draws = 0 /\ sentences = <<>>
        /\ op = NoOp /\ gpc = "idle"
        /\ fpc # "done" /\ result = <<>>
    /\ fpc = "error" => n = 0
    /\ fpc = "done" => (n >= 1 /\ draws = n /\ Len(sentences) = n)
    /\ variables = ketsCFG.variables /\ terminals = ketsCFG.terminals
    /\ startVariable = ketsCFG.startVariable /\ productions = ketsCFG.productions

C19_Witness == fpc = "error" /\ n = 0 /\ draws = 0 /\ sentences = <<>>

====
